---- MODULE Spec2Model ----
(***************************************************************************)
(* Model of flask-server/calendar_agent.py: the GoogleCalendarAgent        *)
(* session (initialize / close), the module-level ensure_agent_ready, the  *)
(* executor entry points and the command parser; and of the request        *)
(* handlers of flask-server/server.py that call them.                      *)
(*                                                                         *)
(* Handles (automation driver, browser context, page) are numbered: the    *)
(* n-th driver start yields driver n, the n-th launch attempt yields       *)
(* context n and its page n.  None is Python's None.                       *)
(***************************************************************************)
EXTENDS Integers, Sequences, FiniteSets, TLC

\* Bound on the number of browser launch attempts over a behaviour.
MaxLaunches == 3

None == 0

VARIABLES
    playwright,        \* self.playwright: driver handle or None
    browser,           \* self.browser: never assigned by the code
    context,           \* self.context: context handle or None
    page,              \* self.page: page handle or None
    is_authenticated,  \* self.is_authenticated
    cookies_file,      \* os.path.exists(self.cookies_path)
    cookies_in_profile,\* cookies_path lies inside user_data_dir (the default)
    profile,           \* user_data_dir: "absent", "empty" or "populated"
    starts,            \* number of async_playwright().start() calls so far
    launches,          \* number of launch_persistent_context attempts so far
    deletes,           \* number of shutil.rmtree(user_data_dir) calls so far
    page_closed,       \* self.page.is_closed() (FALSE while self.page is None)
    probed,            \* page on which the [role="main"] probe last succeeded
    seeded,            \* the context add_cookies was last called on, as a set
    handles,           \* the drivers started and not stopped, and the
                       \* contexts launched and not closed (kept up to
                       \* date by the actions that say so)
    last,              \* record of the last operation and its result
    requests           \* the HTTP requests being handled, one per thread

vars == <<playwright, browser, context, page, is_authenticated, cookies_file,
          cookies_in_profile, profile, starts, launches, deletes,
          page_closed, probed, seeded, handles, last, requests>>

\* The whole state except `last`, as one record the operators below transform.
S ==
    [playwright |-> playwright, browser |-> browser, context |-> context,
     page |-> page, is_authenticated |-> is_authenticated,
     cookies_file |-> cookies_file, cookies_in_profile |-> cookies_in_profile,
     profile |-> profile, starts |-> starts, launches |-> launches,
     deletes |-> deletes, page_closed |-> page_closed,
     probed |-> probed, seeded |-> seeded, handles |-> handles]

Set(s) ==
    /\ playwright' = s.playwright
    /\ browser' = s.browser
    /\ context' = s.context
    /\ page' = s.page
    /\ is_authenticated' = s.is_authenticated
    /\ cookies_file' = s.cookies_file
    /\ cookies_in_profile' = s.cookies_in_profile
    /\ profile' = s.profile
    /\ starts' = s.starts
    /\ launches' = s.launches
    /\ deletes' = s.deletes
    /\ page_closed' = s.page_closed
    /\ probed' = s.probed
    /\ seeded' = s.seeded

-----------------------------------------------------------------------------
(* Outcomes of the awaited browser calls, chosen by the environment.       *)

LaunchOutcomes == {"ok", "error", "timeout"}
NavOutcomes == {"ok", "timeout", "error"}

\* One choice of outcome for every awaited call of an initialize() run.  A
\* call that is not reached on the path the other outcomes select keeps its
\* first value, so that each run of initialize() is enumerated once.
InitEnv ==
    {e \in [l1 : LaunchOutcomes,   \* first wait_for(_launch(), 15.0)
            l2 : LaunchOutcomes,   \* second wait_for(_launch(), 15.0)
            cookies : BOOLEAN,     \* cookie file decodes and add_cookies succeeds
            hasPages : BOOLEAN,    \* context.pages is non-empty
            newPage : BOOLEAN,     \* context.new_page() succeeds
            nav : NavOutcomes,     \* wait_for(page.goto(...), 15.0)
            probe : BOOLEAN,       \* wait_for_selector('[role="main"]') finds it
            store : BOOLEAN,       \* context.storage_state(path=...) succeeds
            stop : BOOLEAN] :      \* playwright.stop() succeeds
        LET launched == e.l1 = "ok" \/ (e.l1 = "error" /\ e.l2 = "ok")
            paged == launched /\ (e.hasPages \/ e.newPage)
            probing == paged /\ e.nav # "error"
        IN  /\ e.l1 # "error" => e.l2 = "ok" /\ e.stop
            /\ e.l1 # "ok" => e.cookies
            /\ ~launched => e.hasPages
            /\ e.hasPages => e.newPage
            /\ ~paged => e.nav = "ok"
            /\ ~probing => e.probe
            /\ ~(probing /\ e.probe) => e.store}

\* No driver is running and no context is open.
NoHandles == [drivers |-> {}, contexts |-> {}]

\* playwright.stop() ended driver d: the browsers it launched end with it.
stopped(h, d) ==
    [drivers |-> h.drivers \ {d},
     contexts |-> {x \in h.contexts : x.d # d}]

\* context.close() closed context c.
closed(h, c) ==
    [h EXCEPT !.contexts = {x \in @ : x.c # c}]

\* async_playwright().start() followed by os.makedirs(user_data_dir).
start_playwright(s) ==
    [s EXCEPT !.starts = @ + 1,
              !.playwright = s.starts + 1,
              !.handles.drivers = @ \cup {s.starts + 1},
              !.profile = IF @ = "absent" THEN "empty" ELSE @]

\* One wait_for(_launch(), 15.0): only a successful launch assigns
\* self.context; the persistent context writes into the profile directory.
launch(s, outcome) ==
    IF outcome = "ok"
    THEN [s EXCEPT !.launches = @ + 1,
                   !.context = s.launches + 1,
                   !.handles.contexts =
                        @ \cup {[c |-> s.launches + 1, d |-> s.playwright]},
                   !.profile = "populated"]
    ELSE [s EXCEPT !.launches = @ + 1]

\* The cookie block of the first try: inject the seed file when it exists;
\* any failure in it is caught and logged.
load_cookies(s, e) ==
    IF s.cookies_file /\ e.cookies
    THEN [s EXCEPT !.seeded = {s.context}]
    ELSE s

\* _cleanup_playwright_only: stop() in a try of its own, then the field is
\* cleared whether or not the driver stopped.
_cleanup_playwright_only(s, e) ==
    [s EXCEPT !.playwright = None,
              !.handles = IF s.playwright # None /\ e.stop
                          THEN stopped(@, s.playwright) ELSE @]

\* shutil.rmtree(user_data_dir, ignore_errors=True); os.makedirs(...).
reset_profile(s) ==
    [s EXCEPT !.profile = "empty",
              !.deletes = @ + 1,
              !.cookies_file = @ /\ ~s.cookies_in_profile]

\* Lines 102-126: bind the page, navigate, probe for the main element.
open_and_probe(s, e) ==
    IF ~e.hasPages /\ ~e.newPage
    THEN [s |-> s, raised |-> TRUE]
    ELSE LET s1 == [s EXCEPT !.page = s.context, !.page_closed = FALSE]
         IN  IF e.nav = "error"
             THEN [s |-> s1, raised |-> TRUE]
             ELSE IF e.probe
                  THEN [s |-> [s1 EXCEPT !.is_authenticated = TRUE,
                                         !.probed = s1.page],
                        raised |-> FALSE]
                  ELSE [s |-> [s1 EXCEPT !.is_authenticated = FALSE],
                        raised |-> FALSE]

\* A launch error handler that relaunches a second time when the relaunch
\* fails.
on_launch_error_again(s, e) ==
    LET s2 == start_playwright(reset_profile(_cleanup_playwright_only(s, e)))
        s3 == launch(s2, e.l2)
    IN  IF e.l2 = "ok"
        THEN open_and_probe(s3, e)
        ELSE open_and_probe(launch(s3, "ok"), e)

\* except Exception: stop the driver, reset the profile, relaunch once.
on_launch_error(s, e) ==
    LET s2 == start_playwright(reset_profile(_cleanup_playwright_only(s, e)))
    IN  IF e.l2 = "ok"
        THEN open_and_probe(launch(s2, "ok"), e)
        ELSE [s |-> launch(s2, e.l2), raised |-> TRUE]

\* A timeout handler that falls into the generic handler and retries.
on_launch_timeout_retry(s, e) ==
    on_launch_error(s, e)

\* except asyncio.TimeoutError: raise RuntimeError("Browser launch timeout").
on_launch_timeout(s, e) ==
    [s |-> s, raised |-> TRUE]

\* initialize() from its first await on: lines 45-126.
start_and_launch(s, e) ==
    LET s1 == launch(start_playwright(s), e.l1)
    IN  CASE e.l1 = "ok" -> open_and_probe(load_cookies(s1, e), e)
          [] e.l1 = "timeout" -> on_launch_timeout(s1, e)
          [] OTHER -> on_launch_error(s1, e)

initialize(s, e) ==
    IF s.page # None
    THEN [s |-> s, raised |-> FALSE]
    ELSE start_and_launch(s, e)

\* agent.page.is_closed(), which may itself raise.
needs_init(s, closedRaises) ==
    IF s.page = None
    THEN TRUE
    ELSE closedRaises \/ s.page_closed

\* An ensure_agent_ready that drops the page it holds and initializes anew on
\* every call.
ensure_agent_ready_anew(s, e, closedRaises) ==
    initialize([s EXCEPT !.page = None, !.page_closed = FALSE], e)

ensure_agent_ready(s, e, closedRaises) ==
    IF needs_init(s, closedRaises)
    THEN initialize(s, e)
    ELSE [s |-> s, raised |-> FALSE]

\* True when an earlier teardown step's failure lets this step run: every
\* step of close() sits in its own try/except, so always.
teardown_continues(failedEarlier) ==
    TRUE

\* close(): page, context, (browser,) driver, each when the handle is set and
\* each in its own try; then the four handles are set to None.  e says which
\* of the awaited calls succeed.
close(s, e) ==
    LET doPage == s.page # None
        failP == doPage /\ ~e.page
        doCtx == s.context # None /\ teardown_continues(failP)
        failC == doCtx /\ ~e.context
        doDrv == s.playwright # None /\ teardown_continues(failP \/ failC)
        h1 == IF doCtx /\ ~failC THEN closed(s.handles, s.context)
              ELSE s.handles
        h2 == IF doDrv /\ e.stop THEN stopped(h1, s.playwright) ELSE h1
    IN  [s |-> [s EXCEPT !.page = None,
                         !.page_closed = FALSE,
                         !.context = None,
                         !.browser = None,
                         !.playwright = None,
                         !.handles = h2],
         attempted |-> (IF doPage THEN <<"page">> ELSE <<>>)
                       \o (IF doCtx THEN <<"context">> ELSE <<>>)
                       \o (IF doDrv THEN <<"playwright">> ELSE <<>>),
         failed |-> (IF failP THEN {"page"} ELSE {})
                    \cup (IF failC THEN {"context"} ELSE {})]

-----------------------------------------------------------------------------
(* Times and commands.  A datetime is [k |-> "dt", v |-> minutes since     *)
(* today 00:00]; Python's None for a time is NoTime.  A string handed to   *)
(* dateparser is a record saying what the text contains.                   *)

NoTime == [k |-> "none"]
Dt(v) == [k |-> "dt", v |-> v]
DayMinutes == 24 * 60

\* A clock text H[:MM][am|pm]: m = -1 when the minutes are absent, mer = ""
\* when the meridiem is absent.
Clock(h, m, mer) == [h |-> h, m |-> m, mer |-> mer]

\* The guard every executor entry point starts with.
not_ready(s) ==
    s.page = None \/ ~s.is_authenticated

\* Python truthiness of a time value: None and "" are false.
falsy(value) ==
    value.k \in {"none", "empty"}

\* The 24-hour hour a clock text denotes for dateparser, or -1 when the text
\* is no clock time: with a meridiem the hour is 1..12, without one the text
\* must be H:MM with H in 0..23; minutes are 0..59.
clock_hour(c) ==
    IF c.m > 59 THEN -1
    ELSE IF c.mer = ""
         THEN IF c.m >= 0 /\ c.h \in 0..23 THEN c.h ELSE -1
         ELSE IF c.h \in 1..12
              THEN (c.h % 12) + (IF c.mer = "pm" THEN 12 ELSE 0)
              ELSE -1

\* dateparser.parse(expr, RELATIVE_BASE = now, PREFER_DATES_FROM = future).
\* A clock text is placed on the hinted day; without a day it is placed today,
\* or tomorrow when that time of day is already past.  "tomorrow" and "today"
\* alone keep the time of day of now.  The "%Y-%m-%d %H:%M" text reads back
\* as the datetime it was printed from.  Anything else is None.
parse_dt(expr, now) ==
    CASE expr.k = "abs" -> Dt(expr.v)
      [] expr.k = "word" ->
            IF expr.w = "tomorrow" THEN Dt(now + DayMinutes)
            ELSE IF expr.w = "today" THEN Dt(now)
            ELSE NoTime
      [] expr.k = "clock" ->
            LET h == clock_hour(expr.t)
                v == h * 60 + (IF expr.t.m < 0 THEN 0 ELSE expr.t.m)
            IN  IF h < 0 THEN NoTime
                ELSE IF expr.day = "tomorrow" THEN Dt(DayMinutes + v)
                ELSE IF expr.day = "today" THEN Dt(v)
                ELSE IF v < now THEN Dt(DayMinutes + v)
                ELSE Dt(v)
      [] OTHER -> NoTime

\* _format_datetime_for_input: a string is first put through dateparser; a
\* datetime prints as "%b %d, %Y %I:%M %p"; an unparsable string stays as is.
_format_datetime_for_input(value, now) ==
    IF value.k = "none"
    THEN [k |-> "text", s |-> ""]
    ELSE LET dt == IF value.k = "dt" THEN value ELSE parse_dt(value, now)
         IN  IF dt.k # "dt"
             THEN [k |-> "text", s |-> value]
             ELSE LET h == (dt.v % DayMinutes) \div 60
                  IN  [k |-> "display",
                       day |-> dt.v \div DayMinutes,
                       h12 |-> IF h % 12 = 0 THEN 12 ELSE h % 12,
                       min |-> dt.v % 60,
                       ampm |-> IF h < 12 THEN "AM" ELSE "PM"]

\* A create_event that reports an error when the button was not clicked.
create_event_checked(s, title, start_time, end_time, description, now, clickOK) ==
    IF not_ready(s) \/ ~clickOK \/ s.page_closed
    THEN [status |-> "error", interacted |-> ~not_ready(s), raised |-> FALSE]
    ELSE [status |-> "success", interacted |-> TRUE, raised |-> FALSE,
          opened |-> TRUE,
          event |-> [title |-> title,
                     start |-> _format_datetime_for_input(start_time, now),
                     end |-> IF ~falsy(end_time)
                             THEN _format_datetime_for_input(end_time, now)
                             ELSE NoTime,
                     description |-> description]]

\* create_event: the guard, one click attempt whose failure is only logged,
\* and the success result built from the arguments.
create_event(s, title, start_time, end_time, description, now, clickOK) ==
    IF not_ready(s)
    THEN [status |-> "error", interacted |-> FALSE, raised |-> FALSE]
    ELSE [status |-> "success", interacted |-> TRUE, raised |-> FALSE,
          opened |-> clickOK /\ ~s.page_closed,
          event |-> [title |-> title,
                     start |-> _format_datetime_for_input(start_time, now),
                     end |-> IF ~falsy(end_time)
                             THEN _format_datetime_for_input(end_time, now)
                             ELSE NoTime,
                     description |-> description]]

\* get_today_events: the guard, then wait_for_selector("[data-eventid]")
\* which raises when no marker appears within 5s (or the page is closed).
get_today_events(s, count) ==
    IF not_ready(s)
    THEN [status |-> "error", interacted |-> FALSE, raised |-> FALSE]
    ELSE IF count = 0 \/ s.page_closed
         THEN [status |-> "error", interacted |-> TRUE, raised |-> FALSE]
         ELSE [status |-> "success", interacted |-> TRUE, raised |-> FALSE,
               count |-> count]

-----------------------------------------------------------------------------
(* The command parser.  A command text is described by what the regular     *)
(* expressions of the parser can see in it:                                 *)
(*   kw       the keywords it contains, among create, add, schedule, the    *)
(*            localized keyword ("richeng"), show and view                  *)
(*   today, tomorrow   it contains that word                                *)
(*   event    it reads "<verb> [a|an] event [called] <words> ..."           *)
(*   words    the words that follow "event [called]", before any comma      *)
(*   next     it contains "next <weekday>"                                  *)
(*   shape    the time part, which follows the words: "none", "bare" (T1),  *)
(*            "at" (at T1) or "window" (from T1 to T2)                      *)
(*   dur      N of a trailing "N hours", -1 when absent; for says whether   *)
(*            it is written "for N hours"                                   *)

CreateKeywords == {"create", "add", "schedule", "richeng"}
ReadKeywords == {"show", "view"}

\* A day hint that does not know the word "tomorrow".
day_hint_today_only(cmd) ==
    IF cmd.today THEN "today" ELSE ""

\* day_token / day_hint: "tomorrow" is looked for before "today".
day_hint(cmd) ==
    IF cmd.tomorrow THEN "tomorrow"
    ELSE IF cmd.today THEN "today"
    ELSE ""

\* The shortest title the lazy group ([^,]*?) can take: the group that
\* follows it, (?:\s+(?:at|on|tomorrow|today))?, is optional and matches
\* after any number of words.
lazy_title_len(words) ==
    CHOOSE k \in 0..Len(words) :
        \A j \in 0..Len(words) : k <= j

_extract_title(cmd) ==
    LET title == IF cmd.event
                 THEN SubSeq(cmd.words, 1, lazy_title_len(cmd.words))
                 ELSE <<>>
    IN  IF title # <<>> THEN title ELSE <<"Untitled Event">>

\* _extract_time without its last line: no default when no pattern matches.
_extract_time_no_default(cmd) ==
    IF cmd.tomorrow THEN [k |-> "word", w |-> "tomorrow"]
    ELSE IF cmd.today THEN [k |-> "word", w |-> "today"]
    ELSE IF cmd.next THEN [k |-> "word", w |-> "next"]
    ELSE [k |-> "empty"]

\* _extract_time: reached only for a text without digits, so its clock
\* pattern cannot match; the first of tomorrow, today, next <weekday>, else
\* the default "2:00 PM".
_extract_time(cmd) ==
    IF cmd.tomorrow THEN [k |-> "word", w |-> "tomorrow"]
    ELSE IF cmd.today THEN [k |-> "word", w |-> "today"]
    ELSE IF cmd.next THEN [k |-> "word", w |-> "next"]
    ELSE [k |-> "clock", day |-> "", t |-> Clock(2, 0, "pm")]

\* The first digit run of the text, read as H[:MM][am|pm]: the first clock
\* text, or the duration's number when there is no clock text.
first_number(cmd) ==
    IF cmd.shape # "none" THEN cmd.t1
    ELSE IF cmd.dur >= 0 THEN Clock(cmd.dur % 100, -1, "")
    ELSE Clock(-1, -1, "")

\* datetime.replace(hour=, minute=) raises ValueError outside 0..23 / 0..59.
replace_raises(hour, minute) ==
    hour > 23 \/ minute > 59

_extract_time_window(cmd, now) ==
    LET c == first_number(cmd)
        minute == IF c.m < 0 THEN 0 ELSE c.m
        hour == IF c.mer = "pm" /\ c.h < 12 THEN c.h + 12
                ELSE IF c.mer = "am" /\ c.h = 12 THEN 0
                ELSE c.h
        base == IF day_hint(cmd) = "tomorrow" THEN DayMinutes ELSE 0
        start == base + hour * 60 + minute
    IN  IF c.h < 0
        THEN [raised |-> FALSE, start |-> _extract_time(cmd), end |-> NoTime]
        ELSE IF replace_raises(hour, minute)
        THEN [raised |-> TRUE]
        ELSE IF cmd.dur >= 0
        THEN [raised |-> FALSE, start |-> [k |-> "abs", v |-> start],
              end |-> [k |-> "abs", v |-> start + cmd.dur * 60]]
        ELSE [raised |-> FALSE, start |-> [k |-> "abs", v |-> start],
              end |-> NoTime]

_parse_command(cmd, now) ==
    LET title == _extract_title(cmd)
        window == cmd.shape = "window"
        time_phrase == cmd.shape = "at"
        duration_hours == IF cmd.dur >= 0 /\ cmd.for THEN cmd.dur ELSE -1
        expr(c) == [k |-> "clock", day |-> day_hint(cmd), t |-> c]
        start1 == IF window \/ time_phrase
                  THEN parse_dt(expr(cmd.t1), now) ELSE NoTime
        end1 == IF window THEN parse_dt(expr(cmd.t2), now)
                ELSE IF time_phrase /\ start1.k = "dt" /\ duration_hours > 0
                THEN Dt(start1.v + duration_hours * 60)
                ELSE NoTime
    IN  IF start1.k = "dt"
        THEN [raised |-> FALSE, error |-> FALSE,
              title |-> title, start |-> start1, end |-> end1]
        ELSE LET fb == _extract_time_window(cmd, now)
             IN  IF fb.raised
                 THEN [raised |-> TRUE]
                 ELSE LET start2 == parse_dt(fb.start, now)
                          end2 == IF fb.end.k # "none"
                                  THEN parse_dt(fb.end, now) ELSE NoTime
                      IN  IF start2.k # "dt"
                          THEN [raised |-> FALSE, error |-> TRUE]
                          ELSE [raised |-> FALSE, error |-> FALSE,
                                title |-> title, start |-> start2,
                                end |-> end2]

\* The keyword tests in the other order: the read keywords first.
route_read_first(cmd) ==
    IF cmd.kw \cap ReadKeywords # {} \/ cmd.today THEN "read"
    ELSE IF cmd.kw \cap CreateKeywords # {} THEN "create"
    ELSE "unsupported"

\* The keyword tests of process_voice_command.
route(cmd) ==
    IF cmd.kw \cap CreateKeywords # {} THEN "create"
    ELSE IF cmd.kw \cap ReadKeywords # {} \/ cmd.today THEN "read"
    ELSE "unsupported"

\* The result r of a branch of process_voice_command, with the branch's name.
via(path, r) ==
    [path |-> path] @@ r

process_voice_command(s, cmd, now, clickOK, count) ==
    IF not_ready(s)
    THEN via("guard",
             [status |-> "error", interacted |-> FALSE, raised |-> FALSE])
    ELSE CASE route(cmd) = "create" ->
                LET parsed == _parse_command(cmd, now)
                IN  IF parsed.raised
                    THEN via("create",
                             [status |-> "raised", interacted |-> FALSE,
                              raised |-> TRUE])
                    ELSE IF parsed.error
                    THEN via("create",
                             [status |-> "error", interacted |-> FALSE,
                              raised |-> FALSE])
                    ELSE via("create",
                             create_event(s, parsed.title, parsed.start,
                                          parsed.end, "", now, clickOK))
           [] route(cmd) = "read" -> via("read", get_today_events(s, count))
           [] OTHER -> via("unsupported",
                           [status |-> "unsupported", interacted |-> FALSE,
                            raised |-> FALSE])

process_structured_command(s, payload, now, clickOK) ==
    IF not_ready(s)
    THEN [status |-> "error", interacted |-> FALSE, raised |-> FALSE]
    ELSE IF falsy(payload.start)
    THEN [status |-> "error", interacted |-> FALSE, raised |-> FALSE]
    ELSE create_event(s,
                      IF payload.title = <<>> THEN <<"Untitled Event">>
                      ELSE payload.title,
                      payload.start, payload.end, payload.description,
                      now, clickOK)

-----------------------------------------------------------------------------
(* server.py: the /api/calendar/command handler.                           *)

\* True when the local parser alone resolves the text to an Intent.
local_resolves(text, now) ==
    /\ text.k = "cmd"
    /\ LET parsed == _parse_command(text.c, now)
       IN  ~parsed.raised /\ ~parsed.error

\* parse_with_ollama returned {"error": ...}, or a payload without title or
\* without start: the two tests of calendar_command.
adapter_failed(adapter) ==
    \/ adapter.k = "error"
    \/ adapter.p.title = <<>>
    \/ falsy(adapter.p.start)

\* calendar_command: 400 without a command, 500 when the adapter failed or
\* anything raises, else ensure_agent_ready and process_structured_command
\* on the adapter's payload.
calendar_command(s, text, adapter, e, closedRaises, now, clickOK) ==
    IF text.k = "empty"
    THEN [s |-> s, http |-> 400, status |-> "error"]
    ELSE IF adapter_failed(adapter)
    THEN [s |-> s, http |-> 500, status |-> "error"]
    ELSE LET r == ensure_agent_ready(s, e, closedRaises)
         IN  IF r.raised
             THEN [s |-> r.s, http |-> 500, status |-> "error"]
             ELSE [s |-> r.s, http |-> 200,
                   status |-> process_structured_command(
                                  r.s, adapter.p, now, clickOK).status]

-----------------------------------------------------------------------------
\* Largest number of requests the server handles at the same time.
MaxRequests == 2

\* The threaded development server runs every request in a thread of its own.
Threads == 1..MaxRequests

\* A thread with no request: its position, the route of its request and the
\* HTTP status it answered.
Idle == [at |-> "idle", route |-> "", http |-> 0]

Init ==
    /\ playwright = None
    /\ browser = None
    /\ context = None
    /\ page = None
    /\ is_authenticated = FALSE
    /\ cookies_file \in BOOLEAN
    /\ cookies_in_profile \in BOOLEAN
    /\ profile \in {"absent", "populated"}
    /\ cookies_in_profile /\ cookies_file => profile = "populated"
    /\ starts = 0
    /\ launches = 0
    /\ deletes = 0
    /\ page_closed = FALSE
    /\ probed = None
    /\ seeded = {}
    /\ handles = NoHandles
    /\ last = [op |-> "none"]
    /\ requests = [t \in Threads |-> Idle]

\* What `last` keeps of an ensure_agent_ready call: the state it started in,
\* the launch outcomes it met and what it did.
ensure_record(s, r, e, closedRaises) ==
    [op |-> "ensure_agent_ready",
     raised |-> r.raised,
     prePage |-> s.page,
     preLive |-> (s.page # None /\ ~s.page_closed /\ ~closedRaises),
     preAuth |-> s.is_authenticated,
     cookieAtCall |-> s.cookies_file,
     cookiesOK |-> e.cookies,
     bound |-> r.s.context # s.context,
     l1 |-> IF r.s.launches > s.launches THEN e.l1 ELSE "none",
     l2 |-> IF r.s.launches > s.launches + 1 THEN e.l2 ELSE "none",
     launched |-> r.s.launches - s.launches,
     deleted |-> r.s.deletes - s.deletes,
     same |-> (r.s.page = s.page /\ r.s.context = s.context
               /\ r.s.is_authenticated = s.is_authenticated)]

EnsureAgentReady ==
    /\ launches + 2 <= MaxLaunches
    /\ \E closedRaises \in BOOLEAN :
          /\ page = None => ~closedRaises
          /\ \E e \in IF needs_init(S, closedRaises) /\ page = None
                       THEN InitEnv
                       ELSE {CHOOSE x \in InitEnv : x.l1 = "ok"} :
                LET r == ensure_agent_ready(S, e, closedRaises)
                IN  /\ Set(r.s)
                    /\ last' = ensure_record(S, r, e, closedRaises)
                               @@ [afterLogin |-> last.op = "human_login"]
    /\ UNCHANGED <<handles, requests>>

\* Outcomes of the three awaited teardown calls of close().
CloseEnv ==
    [page : BOOLEAN, context : BOOLEAN, stop : BOOLEAN]

Close ==
    \E e \in CloseEnv :
        /\ page = None => e.page
        /\ context = None => e.context
        /\ playwright = None => e.stop
        /\ LET r == close(S, e)
           IN  /\ Set(r.s)
               /\ last' = [op |-> "close", attempted |-> r.attempted,
                           failed |-> r.failed,
                           had |-> (IF page # None THEN {"page"} ELSE {})
                                   \cup (IF context # None
                                         THEN {"context"} ELSE {})
                                   \cup (IF playwright # None
                                         THEN {"playwright"} ELSE {})]
        /\ UNCHANGED <<handles, requests>>

\* The browser window is closed from outside: the handle held in self.page
\* stays, and page.is_closed() turns true.
PageClosedOutside ==
    /\ page # None
    /\ ~page_closed
    /\ page_closed' = TRUE
    /\ last' = [op |-> "page_closed"]
    /\ UNCHANGED <<playwright, browser, context, page, is_authenticated,
                   cookies_file, cookies_in_profile, profile, starts,
                   launches, deletes, probed, seeded, handles, requests>>

\* A person signs in to the account in the open browser window of a session
\* that is not authenticated: from now on the page shows the calendar's
\* main element.  No field of the agent changes.
HumanLogin ==
    /\ page # None
    /\ ~page_closed
    /\ ~is_authenticated
    /\ last.op # "human_login"
    /\ last' = [op |-> "human_login"]
    /\ UNCHANGED <<playwright, browser, context, page, is_authenticated,
                   cookies_file, cookies_in_profile, profile, starts,
                   launches, deletes, page_closed, probed, seeded, handles,
                   requests>>

\* Times of day at which a command is handled (minutes since 00:00).
NowTimes == {9 * 60, 15 * 60 + 30}

\* Largest number of event markers the calendar page shows.
MaxEvents == 1

Clocks ==
    {Clock(10, -1, "am"), Clock(25, 0, ""), Clock(10, 75, "")}

EndClocks ==
    {Clock(9, -1, "am")}

NoClock == Clock(-1, -1, "")

\* The command texts the dispatcher is given.
Commands ==
    {c \in [kw : {{}, {"create"}, {"show"}, {"create", "show"}},
            today : BOOLEAN, tomorrow : BOOLEAN,
            event : BOOLEAN, words : {<<>>, <<"Dentist">>},
            next : {FALSE},
            shape : {"none", "bare", "at", "window"},
            t1 : Clocks \cup {NoClock}, t2 : EndClocks \cup {NoClock},
            dur : {-1, 2}, for : BOOLEAN] :
        /\ c.event => c.kw = {"create"}
        /\ c.event = (c.words # <<>>)
        /\ (c.shape = "none") = (c.t1 = NoClock)
        /\ (c.shape = "window") = (c.t2 # NoClock)
        /\ c.for = (c.dur >= 0)}

TitleWords == {<<>>, <<"Lunch">>}

\* Start and end texts of a structured payload.
PayloadTimes ==
    {NoTime, [k |-> "empty"],
     [k |-> "clock", day |-> "tomorrow", t |-> Clock(10, -1, "am")],
     [k |-> "junk"]}

Payloads ==
    [title : TitleWords, start : PayloadTimes,
     end : {NoTime, [k |-> "clock", day |-> "tomorrow",
                     t |-> Clock(9, -1, "am")]},
     description : {""}]

\* What `last` keeps of an executor call.
executor_record(name, r) ==
    [op |-> name, status |-> r.status, interacted |-> r.interacted,
     raised |-> r.raised]

\* The session fields: no executor entry point assigns any of them.
session == <<playwright, browser, context, page, is_authenticated,
             cookies_file, cookies_in_profile, profile, starts, launches,
             deletes, page_closed, probed, seeded, handles>>

\* The inputs of an executor call matter only once its guard has passed: a
\* session that is not ready gets one call instead of one per input.
Inputs(s, all) ==
    IF not_ready(s) THEN {CHOOSE x \in all : TRUE} ELSE all

CreateEvent ==
    /\ LET s == S
       IN  \E r \in {create_event(s, p.title, p.start, p.end, p.description,
                                  now, clickOK) :
                        p \in Inputs(s, {q \in Payloads : ~falsy(q.start)}),
                        now \in Inputs(s, NowTimes),
                        clickOK \in Inputs(s, BOOLEAN)} :
              last' = executor_record("create_event", r)
    /\ UNCHANGED <<session, requests>>

\* markers is the number of [data-eventid] elements the page shows.
GetTodayEvents ==
    /\ LET s == S
       IN  \E count \in Inputs(s, 0..MaxEvents) :
              last' = executor_record("get_today_events",
                                      get_today_events(s, count))
                      @@ [markers |-> count]
    /\ UNCHANGED <<session, requests>>

ProcessVoiceCommand ==
    /\ LET s == S
       IN  \E r \in {process_voice_command(s, cmd, now, clickOK, count) :
                        cmd \in Inputs(s, Commands),
                        now \in Inputs(s, NowTimes),
                        clickOK \in Inputs(s, BOOLEAN),
                        count \in Inputs(s, 0..MaxEvents)} :
              last' = executor_record("process_voice_command", r)
    /\ UNCHANGED <<session, requests>>

ProcessStructuredCommand ==
    /\ LET s == S
       IN  \E r \in {process_structured_command(s, p, now, clickOK) :
                        p \in Inputs(s, Payloads),
                        now \in Inputs(s, NowTimes),
                        clickOK \in Inputs(s, BOOLEAN)} :
              last' = executor_record("process_structured_command", r)
    /\ UNCHANGED <<session, requests>>

\* "schedule a meeting tomorrow at 10am for 2 hours" and
\* "schedule lunch 25:00".
MeetingCommand ==
    [kw |-> {"schedule"}, today |-> FALSE, tomorrow |-> TRUE,
     event |-> FALSE, words |-> <<>>, next |-> FALSE, shape |-> "at",
     t1 |-> Clock(10, -1, "am"), t2 |-> NoClock, dur |-> 2, for |-> TRUE]

LunchCommand ==
    [kw |-> {"schedule"}, today |-> FALSE, tomorrow |-> FALSE,
     event |-> FALSE, words |-> <<>>, next |-> FALSE, shape |-> "bare",
     t1 |-> Clock(25, 0, ""), t2 |-> NoClock, dur |-> -1, for |-> FALSE]

\* The "command" field of a request body.
HttpTexts ==
    {[k |-> "empty"], [k |-> "cmd", c |-> MeetingCommand],
     [k |-> "cmd", c |-> LunchCommand]}

\* What parse_with_ollama returns.
AdapterResults ==
    {[k |-> "error"]}
    \cup {[k |-> "payload", p |-> p] : p \in {q \in Payloads : q.end = NoTime}}

\* What `last` keeps of a /api/calendar/command request.
command_record(s, text, adapter, now, r) ==
    [op |-> "calendar_command",
     http |-> r.http,
     status |-> r.status,
     adapterFailed |-> text.k = "cmd" /\ adapter_failed(adapter),
     localOK |-> local_resolves(text, now),
     preReady |-> (s.page # None /\ ~s.page_closed /\ s.is_authenticated
                   /\ s.probed = s.page)]

CalendarCommand ==
    /\ launches + 2 <= MaxLaunches
    /\ LET s == S
       IN  \E x \in {[r |-> calendar_command(s, text, adapter, e,
                                             closedRaises, now, clickOK),
                      text |-> text, adapter |-> adapter, now |-> now] :
                        text \in HttpTexts, adapter \in AdapterResults,
                        e \in IF s.page = None THEN InitEnv
                              ELSE {CHOOSE x \in InitEnv : x.l1 = "ok"},
                        closedRaises \in IF s.page = None THEN {FALSE}
                                         ELSE BOOLEAN,
                        now \in NowTimes, clickOK \in BOOLEAN} :
              /\ Set(x.r.s)
              /\ last' = command_record(s, x.text, x.adapter, x.now, x.r)
    /\ UNCHANGED <<handles, requests>>

Next ==
    \/ EnsureAgentReady
    \/ CalendarCommand
    \/ Close
    \/ PageClosedOutside
    \/ HumanLogin
    \/ CreateEvent
    \/ GetTodayEvents
    \/ ProcessVoiceCommand
    \/ ProcessStructuredCommand

Spec == Init /\ [][Next]_vars

-----------------------------------------------------------------------------
(* The session lifecycle with the running drivers and the open contexts     *)
(* kept in `handles`: ensure_agent_ready and close, called one after the    *)
(* other.                                                                   *)

EnsureAgentReadyTracked ==
    /\ launches + 2 <= MaxLaunches
    /\ \E closedRaises \in BOOLEAN :
          /\ page = None => ~closedRaises
          /\ \E e \in IF needs_init(S, closedRaises) /\ page = None
                       THEN InitEnv
                       ELSE {CHOOSE x \in InitEnv : x.l1 = "ok"} :
                LET r == ensure_agent_ready(S, e, closedRaises)
                IN  /\ Set(r.s)
                    /\ handles' = r.s.handles
                    /\ last' = [op |-> "ensure_agent_ready",
                                raised |-> r.raised,
                                l1 |-> IF r.s.launches > launches
                                       THEN e.l1 ELSE "none",
                                stopOK |-> e.stop]
    /\ UNCHANGED requests

CloseTracked ==
    \E e \in CloseEnv :
        /\ page = None => e.page
        /\ context = None => e.context
        /\ playwright = None => e.stop
        /\ LET r == close(S, e)
           IN  /\ Set(r.s)
               /\ handles' = r.s.handles
               /\ last' = [op |-> "close", failed |-> r.failed,
                           stopOK |-> e.stop]
        /\ UNCHANGED requests

NextHandles ==
    \/ EnsureAgentReadyTracked
    \/ CloseTracked

SpecHandles == Init /\ [][NextHandles]_vars

-----------------------------------------------------------------------------
(* server.py under the threaded development server: every request runs in  *)
(* its own thread with its own event loop, on the one module-level agent.   *)
(* A handler is split where initialize() first awaits, after its test of    *)
(* self.page: the other threads run while the driver starts and the browser *)
(* launches.                                                                *)

Routes == {"init", "command", "create"}

\* The status a handler answers before it calls ensure_agent_ready, 0 when it
\* goes on: only /api/calendar/command can fail that early.
early_status(path, text, adapter) ==
    IF path # "command" THEN 0
    ELSE IF text.k = "empty" THEN 400
    ELSE IF adapter_failed(adapter) THEN 500
    ELSE 0

\* A request arrives and its handler runs up to the first await of
\* initialize(): ensure_agent_ready tests agent.page and initialize() tests
\* self.page; with a page bound nothing is launched and the handler answers.
Arrive(t) ==
    /\ requests[t].at = "idle"
    /\ \E x \in {[route |-> path,
                   early |-> early_status(path, text, adapter)] :
                     path \in Routes, text \in HttpTexts,
                     adapter \in AdapterResults} :
          /\ requests' =
                [requests EXCEPT ![t] =
                    IF x.early # 0
                    THEN [at |-> "done", route |-> x.route, http |-> x.early]
                    ELSE IF page = None
                    THEN [at |-> "initializing", route |-> x.route,
                          http |-> 0]
                    ELSE [at |-> "done", route |-> x.route, http |-> 200]]
          /\ last' = [op |-> "arrive", thread |-> t, route |-> x.route]
    /\ UNCHANGED session

\* The rest of initialize() and of the handler: the driver start, the launch
\* and what follows it, then the response.
Initialized(t) ==
    /\ requests[t].at = "initializing"
    /\ launches + 2 <= MaxLaunches
    /\ \E e \in InitEnv :
          LET r == start_and_launch(S, e)
          IN  /\ Set(r.s)
              /\ handles' = r.s.handles
              /\ requests' =
                    [requests EXCEPT ![t] =
                        [at |-> "done", route |-> @.route,
                         http |-> IF r.raised THEN 500 ELSE 200]]
              /\ last' = [op |-> "initialized", thread |-> t,
                          raised |-> r.raised]

NextHttp ==
    \/ \E t \in Threads : Arrive(t)
    \/ \E t \in Threads : Initialized(t)

SpecHttp == Init /\ [][NextHttp]_vars

-----------------------------------------------------------------------------
(* The parser and the dispatcher as functions of the command text and the   *)
(* current time: a second specification that draws a text and a time and    *)
(* applies _extract_title, _parse_command, process_voice_command or         *)
(* process_structured_command to it, on a session that is ready.            *)

\* Largest N of "for N hours" drawn.
MaxDuration == 2

ParseHours == {9, 12}

\* Clock texts with a meridiem, and 24-hour H:MM texts in and out of range.
ParseClocks ==
    {Clock(h, m, mer) : h \in ParseHours, m \in {-1, 30}, mer \in {"am", "pm"}}
    \cup {Clock(15, 0, ""), Clock(25, 0, "")}

\* Bare numbers, which only the fallback builder reads as an hour.
BareHours == {Clock(10, -1, ""), Clock(25, -1, "")}

AllKeywords == CreateKeywords \cup ReadKeywords

TitleTexts == {<<"Dentist">>, <<"Team", "Sync">>}

\* What the regular expressions of the parser can see of one command text.
Text(kw, today, tomorrow, event, words, next, shape, t1, t2, dur, for) ==
    [kw |-> kw, today |-> today, tomorrow |-> tomorrow, event |-> event,
     words |-> words, next |-> next, shape |-> shape, t1 |-> t1, t2 |-> t2,
     dur |-> dur, for |-> for]

\* Every combination of the dispatcher's keywords, with no time in the text.
KeywordCommands ==
    {Text(kw, today, tomorrow, FALSE, <<>>, FALSE, "none", NoClock, NoClock,
          -1, FALSE) :
        kw \in SUBSET AllKeywords, today \in BOOLEAN, tomorrow \in BOOLEAN}

\* The time parts of a text: nothing, a bare number, "at T1", "from T1 to T2".
TimeParts ==
    {[shape |-> "none", t1 |-> NoClock, t2 |-> NoClock]}
    \cup {[shape |-> "bare", t1 |-> c, t2 |-> NoClock] :
            c \in ParseClocks \cup BareHours}
    \cup {[shape |-> "at", t1 |-> c, t2 |-> NoClock] : c \in ParseClocks}
    \cup {[shape |-> "window", t1 |-> c, t2 |-> d] :
            c \in ParseClocks, d \in ParseClocks}

\* "N hours", with and without "for" in front of it; -1 when the text has none.
DurationParts ==
    {[dur |-> -1, for |-> FALSE]}
    \cup {[dur |-> n, for |-> f] : n \in 0..MaxDuration, f \in BOOLEAN}

\* "schedule meeting [today|tomorrow] <time part> [[for] N hours]".
TimeCommands ==
    {Text({"schedule"}, day = "today", day = "tomorrow", FALSE, <<>>, FALSE,
          tp.shape, tp.t1, tp.t2, d.dur, d.for) :
        day \in {"", "today", "tomorrow"}, tp \in TimeParts,
        d \in DurationParts}

\* "create event [called] <words> [tomorrow] [next | at T1]".
TitleCommands ==
    {Text({"create"}, FALSE, tomorrow, TRUE, w, tp.next, tp.shape, tp.t1,
          NoClock, -1, FALSE) :
        tomorrow \in BOOLEAN, w \in TitleTexts \cup {<<>>},
        tp \in {[next |-> n, shape |-> "none", t1 |-> NoClock] : n \in BOOLEAN}
              \cup {[next |-> FALSE, shape |-> "at", t1 |-> c] :
                      c \in ParseClocks}}

ParseCommands == KeywordCommands \cup TimeCommands \cup TitleCommands

ParseNows == NowTimes \cup {23 * 60 + 59}

\* __init__'s session, with no cookie file and no profile directory yet.
FreshSession ==
    [playwright |-> None, browser |-> None, context |-> None, page |-> None,
     is_authenticated |-> FALSE, cookies_file |-> FALSE,
     cookies_in_profile |-> FALSE, profile |-> "absent", starts |-> 0,
     launches |-> 0, deletes |-> 0, page_closed |-> FALSE, probed |-> None,
     seeded |-> {}, handles |-> NoHandles]

\* An initialize() run in which every awaited call succeeds.
OkEnv ==
    [l1 |-> "ok", l2 |-> "ok", cookies |-> TRUE, hasPages |-> TRUE,
     newPage |-> TRUE, nav |-> "ok", probe |-> TRUE, store |-> TRUE,
     stop |-> TRUE]

\* The session after ensure_agent_ready() found the calendar's main element.
ReadySession == ensure_agent_ready(FreshSession, OkEnv, FALSE).s

InitParse ==
    /\ playwright = ReadySession.playwright
    /\ browser = ReadySession.browser
    /\ context = ReadySession.context
    /\ page = ReadySession.page
    /\ is_authenticated = ReadySession.is_authenticated
    /\ cookies_file = ReadySession.cookies_file
    /\ cookies_in_profile = ReadySession.cookies_in_profile
    /\ profile = ReadySession.profile
    /\ starts = ReadySession.starts
    /\ launches = ReadySession.launches
    /\ deletes = ReadySession.deletes
    /\ page_closed = ReadySession.page_closed
    /\ probed = ReadySession.probed
    /\ seeded = ReadySession.seeded
    /\ handles = ReadySession.handles
    /\ requests = [t \in Threads |-> Idle]
    /\ \/ \E c \in ParseCommands, n \in ParseNows :
             last = [op |-> "text", cmd |-> c, now |-> n]
       \/ \E p \in Payloads, n \in ParseNows :
             last = [op |-> "payload", payload |-> p, now |-> n]

ExtractTitle ==
    /\ last.op = "text"
    /\ last' = [op |-> "_extract_title", cmd |-> last.cmd,
                title |-> _extract_title(last.cmd)]
    /\ UNCHANGED <<session, requests>>

ParseCommand ==
    /\ last.op = "text"
    /\ last' = [op |-> "_parse_command", cmd |-> last.cmd, now |-> last.now,
                out |-> _parse_command(last.cmd, last.now)]
    /\ UNCHANGED <<session, requests>>

DispatchVoice ==
    /\ last.op = "text"
    /\ \E r \in {process_voice_command(S, last.cmd, last.now, clickOK, count) :
                    clickOK \in BOOLEAN, count \in 0..MaxEvents} :
          last' = [op |-> "voice", cmd |-> last.cmd, now |-> last.now,
                   out |-> r]
    /\ UNCHANGED <<session, requests>>

DispatchStructured ==
    /\ last.op = "payload"
    /\ \E r \in {process_structured_command(S, last.payload, last.now,
                                             clickOK) : clickOK \in BOOLEAN} :
          last' = [op |-> "structured", payload |-> last.payload,
                   now |-> last.now, out |-> r]
    /\ UNCHANGED <<session, requests>>

\* create_event called with the fields of the payload; clicked says whether
\* the click on the creation button succeeded within its 3s.
CreateEventCall ==
    /\ last.op = "payload"
    /\ ~falsy(last.payload.start)
    /\ \E clickOK \in BOOLEAN :
          last' = [op |-> "created", payload |-> last.payload,
                   now |-> last.now, clicked |-> clickOK,
                   out |-> create_event(S, last.payload.title,
                                        last.payload.start, last.payload.end,
                                        last.payload.description, last.now,
                                        clickOK)]
    /\ UNCHANGED <<session, requests>>

NextParse ==
    \/ ExtractTitle
    \/ ParseCommand
    \/ DispatchVoice
    \/ DispatchStructured
    \/ CreateEventCall

SpecParse == InitParse /\ [][NextParse]_vars

-----------------------------------------------------------------------------
(* Properties.                                                             *)

IsEnsure == last.op = "ensure_agent_ready"

Executors ==
    {"create_event", "get_today_events", "process_voice_command",
     "process_structured_command"}

\* C1: an ensure_agent_ready call made while the session holds a live page
\* and is authenticated launches no browser, deletes no profile directory and
\* leaves page, context and is_authenticated as they were.
C1_Idempotent ==
    IsEnsure /\ last.preLive /\ last.preAuth
        => /\ last.launched = 0
           /\ last.deleted = 0
           /\ last.same
           /\ ~last.raised

\* Such a call has happened on a session an earlier call launched.
C1_Witness ==
    IsEnsure /\ last.preLive /\ last.preAuth /\ launches >= 1 /\ page # None

\* C2: an ensure_agent_ready call made while the session holds a page handle
\* that is closed (or whose is_closed check raises) launches a browser again
\* and, unless it raises, ends with a live page other than the unusable one.
C2_ReinitOnClosedPage ==
    IsEnsure /\ last.prePage # None /\ ~last.preLive
        => /\ last.launched >= 1
           /\ ~last.raised => page # None /\ ~page_closed
                              /\ page # last.prePage

\* C3: a call whose first launch raises and whose second launch succeeds has
\* made exactly one retry, deleted and recreated the profile directory once
\* (the relaunch fills it again), and ends without an error with the page of
\* the relaunched context.
C3_Recovery ==
    IsEnsure /\ last.l1 = "error" /\ last.l2 = "ok"
        => /\ last.launched = 2
           /\ last.deleted = 1
           /\ profile = "populated"
           /\ ~last.raised
           /\ page # None
           /\ page = context
           /\ context = launches

\* C4: one ensure_agent_ready call attempts the launch at most twice and
\* deletes the profile directory at most once, and only after a failed first
\* attempt; when the second launch fails too the call raises after exactly
\* two attempts.
C4_BoundedRetry ==
    IsEnsure
        => /\ last.launched <= 2
           /\ last.deleted <= 1
           /\ last.deleted = 1 => last.l1 \in {"error", "timeout"}
           /\ last.l2 \in {"error", "timeout"}
                 => last.raised /\ last.launched = 2

\* A call whose two launches both failed.
C4_Witness ==
    IsEnsure /\ last.l1 = "error" /\ last.l2 \in {"error", "timeout"}
        /\ last.deleted = 1

\* C5 as stated: a launch timeout on the first attempt resets the profile
\* directory and is retried once, like any other launch exception.
C5_TimeoutRetried ==
    IsEnsure /\ last.l1 = "timeout"
        => last.launched = 2 /\ last.deleted = 1

\* C5 as amended: a launch timeout on the first attempt is fatal at once: the
\* call raises after that single attempt, the profile directory is not
\* deleted and the driver handle stays set; any other exception of the first
\* launch resets the profile directory and is followed by exactly one more
\* attempt.
C5_TimeoutFatalAtOnce ==
    /\ IsEnsure /\ last.l1 = "timeout"
          => /\ last.raised
             /\ last.launched = 1
             /\ last.deleted = 0
             /\ playwright # None
    /\ IsEnsure /\ last.l1 = "error"
          => last.launched = 2 /\ last.deleted = 1

\* A call whose first launch timed out.
C5_Witness ==
    IsEnsure /\ last.l1 = "timeout" /\ last.raised

\* C6: when a loadable cookie file existed as the call started and the call
\* bound a newly launched context, the cookies were injected into that
\* context, whichever of the two launches produced it.
C6_CookiesOnEveryLaunch ==
    IsEnsure /\ last.cookieAtCall /\ last.cookiesOK /\ last.bound
        => context \in seeded

\* C7: an executor entry point called on a session that is not
\* ReadyAuthenticated (no page, or no successful auth probe on the page it
\* holds) returns an error result and does not touch the page.
C7_ExecutorsNeedReadyAuthenticated ==
    last.op \in Executors /\ ~(page # None /\ probed = page)
        => last.status = "error" /\ ~last.interacted

\* C8: a call in which a launch succeeded ends without an error, with a page
\* and with is_authenticated telling whether the main-content probe succeeded.
C8_LaunchedEndsReady ==
    IsEnsure /\ (last.l1 = "ok" \/ last.l2 = "ok")
        => /\ ~last.raised
           /\ page # None
           /\ is_authenticated = (probed = page)

\* C9: close() attempts page, context and driver in that order, each handle
\* it held whatever failed before, and leaves the session Uninitialized: no
\* page, context or driver handle and not authenticated.
C9_CloseResets ==
    last.op = "close"
        => /\ last.attempted
                = (IF "page" \in last.had THEN <<"page">> ELSE <<>>)
                  \o (IF "context" \in last.had THEN <<"context">> ELSE <<>>)
                  \o (IF "playwright" \in last.had
                      THEN <<"playwright">> ELSE <<>>)
           /\ page = None /\ context = None /\ playwright = None
           /\ ~is_authenticated

\* C10: process_voice_command never raises: whatever the command and the
\* session, it returns a result whose status is success, error or
\* unsupported.
C10_VoiceCommandNeverRaises ==
    last.op = "process_voice_command"
        => ~last.raised /\ last.status \in {"success", "error", "unsupported"}

\* C11: a /api/calendar/command request whose adapter call failed (error, or
\* a payload without title or start), whose command the local parser alone
\* resolves and which arrives on a ReadyAuthenticated session is answered
\* with the created event, not with an error response.
C11_AdapterFailureFallsBack ==
    last.op = "calendar_command" /\ last.adapterFailed /\ last.localOK
        /\ last.preReady
        => last.http = 200 /\ last.status = "success"

\* The parser returned an Intent: it neither raised nor returned the error.
IsIntent(out) == ~out.raised /\ ~out.error

\* C12: the dispatcher takes exactly the route the keywords decide, creation
\* first: the creation path iff the text contains create, add, schedule or the
\* localized keyword; else the read path iff it contains show, view or today;
\* else it answers Unsupported.
C12_RoutingByKeyword ==
    last.op = "voice"
        => LET creates == \E k \in {"create", "add", "schedule", "richeng"} :
                              k \in last.cmd.kw
               reads == "show" \in last.cmd.kw \/ "view" \in last.cmd.kw
                            \/ last.cmd.today
           IN  /\ (last.out.path = "create") = creates
               /\ (last.out.path = "read") = (~creates /\ reads)
               /\ (last.out.path = "unsupported") = (~creates /\ ~reads)
               /\ (last.out.status = "unsupported")
                      = (last.out.path = "unsupported")

\* A text with a creation keyword, a read keyword and "today" went to the
\* creation path.
C12_Witness ==
    /\ last.op = "voice"
    /\ {"add", "show"} \subseteq last.cmd.kw
    /\ last.cmd.today
    /\ last.out.path = "create"

\* The text has no window, no clock time, no number and no today, tomorrow or
\* next-weekday token.
NoTimeTokens(cmd) ==
    /\ cmd.shape = "none"
    /\ cmd.dur < 0
    /\ ~cmd.today /\ ~cmd.tomorrow /\ ~cmd.next

\* C13 as stated: for a text without any time token _parse_command returns
\* the parse error, not an Intent.
C13_NoTokensIsParseError ==
    last.op = "_parse_command" /\ NoTimeTokens(last.cmd)
        => ~last.out.raised /\ last.out.error

\* C13 amended: for a text without any time token the last layer supplies
\* the default "2:00 PM", so _parse_command returns an Intent whose start is
\* at 14:00 and whose end is absent.
C13_NoTokensDefaultsTo2PM ==
    last.op = "_parse_command" /\ NoTimeTokens(last.cmd)
        => /\ IsIntent(last.out)
           /\ last.out.start.k = "dt"
           /\ last.out.start.v % DayMinutes = 14 * 60
           /\ last.out.end = NoTime

C13_Witness ==
    /\ last.op = "_parse_command"
    /\ NoTimeTokens(last.cmd)
    /\ last.cmd.kw = {}
    /\ IsIntent(last.out)

\* C14: the Intent parsed from a text with a window "from T1 to T2", whatever
\* the two clock values, has start strictly before end.
C14_WindowStartBeforeEnd ==
    last.op = "_parse_command" /\ last.cmd.shape = "window"
        /\ IsIntent(last.out) /\ last.out.end.k = "dt"
        => last.out.start.v < last.out.end.v

\* C15: for a text containing "tomorrow", whichever layer resolves it and
\* whatever the time of day, the start of the Intent is on the day after
\* today, and so is the end of a window.
C15_TomorrowIsNextDay ==
    last.op = "_parse_command" /\ last.cmd.tomorrow /\ IsIntent(last.out)
        => /\ last.out.start.v \div DayMinutes = 1
           /\ last.cmd.shape = "window" /\ last.out.end.k = "dt"
                  => last.out.end.v \div DayMinutes = 1

\* "tomorrow" resolved late in the evening by the at-time layer.
C15_Witness ==
    /\ last.op = "_parse_command"
    /\ last.cmd.tomorrow
    /\ last.cmd.shape = "at"
    /\ last.now = 23 * 60 + 59
    /\ IsIntent(last.out)
    /\ last.out.start = Dt(DayMinutes + 9 * 60)

\* C16: the Intent parsed from "at T1 ... for N hours" without a window has
\* end = start + N hours, for every N >= 0.
C16_DurationGivesEnd ==
    last.op = "_parse_command" /\ last.cmd.shape = "at" /\ last.cmd.for
        /\ IsIntent(last.out)
        => last.out.end = Dt(last.out.start.v + last.cmd.dur * 60)

\* C17: for a text "<verb> event [called] <words> ..." with at least one
\* word, _extract_title returns the words.
C17_TitleWordsReturned ==
    last.op = "_extract_title" /\ last.cmd.event /\ last.cmd.words # <<>>
        => last.title = last.cmd.words

\* C18: get_today_events on a ReadyAuthenticated session whose page shows no
\* event marker within the wait returns status success (an empty list), not
\* an error.
C18_NoMarkersIsEmptySuccess ==
    /\ last.op = "get_today_events"
    /\ page # None /\ ~page_closed /\ is_authenticated /\ probed = page
    /\ last.markers = 0
    => last.status = "success"

\* C19: whatever the interleaving of the requests that arrive while the
\* session is Uninitialized, at most one of them is inside initialize() at a
\* time.
C19_OneInitializationInFlight ==
    Cardinality({t \in Threads : requests[t].at = "initializing"}) <= 1

\* Minutes since today 00:00 of a formatted "%b %d, %Y %I:%M %p" text.
display_minutes(d) ==
    d.day * DayMinutes
        + ((d.h12 % 12) + (IF d.ampm = "PM" THEN 12 ELSE 0)) * 60 + d.min

\* C20: no success result carries an end that is not strictly after its
\* start: create_event, reached from process_voice_command or from
\* process_structured_command, rejects such an Intent.
C20_EndNotAfterStartRejected ==
    /\ last.op \in {"voice", "structured"}
    /\ last.out.status = "success"
    /\ "event" \in DOMAIN last.out
    /\ last.out.event.start.k = "display"
    /\ last.out.event.end.k = "display"
    => display_minutes(last.out.event.start)
          < display_minutes(last.out.event.end)

\* C21: on a ReadyAuthenticated session create_event returns success with
\* the title, the formatted start, the formatted end (or none) and the
\* description it was given, whether or not the creation button was clicked.
C21_SuccessWhateverTheClick ==
    last.op = "created"
        => /\ last.out.status = "success"
           /\ last.out.event.title = last.payload.title
           /\ last.out.event.start
                 = _format_datetime_for_input(last.payload.start, last.now)
           /\ last.out.event.end
                 = (IF last.payload.end = NoTime THEN NoTime
                    ELSE _format_datetime_for_input(last.payload.end,
                                                    last.now))
           /\ last.out.event.description = last.payload.description

\* The click failed and the result is success, with a formatted end.
C21_Witness ==
    /\ last.op = "created"
    /\ ~last.clicked
    /\ ~last.out.opened
    /\ last.out.status = "success"
    /\ last.out.event.end.k = "display"

\* C22: an ensure_agent_ready call made after a person signed in on the page
\* of a session that was ReadyUnauthenticated probes again and leaves the
\* session authenticated.
C22_LoginSeenByNextCall ==
    last.op = "ensure_agent_ready" /\ last.afterLogin /\ ~last.raised
        => is_authenticated

\* C23: in every reachable state the authenticated flag is paired with a
\* page only when the probe for the main element succeeded on that very
\* page.
C23_AuthenticatedOnlyIfProbed ==
    is_authenticated /\ page # None => probed = page

\* C24: in every reachable state every driver that was started and not
\* stopped is the one the session refers to, and every context that was
\* launched and not closed is the one the session refers to.
C24_NoOrphanedHandles ==
    /\ handles.drivers \subseteq {playwright}
    /\ {x.c : x \in handles.contexts} \subseteq {context}

====
